---- MODULE Spec2Model ----
(***************************************************************************)
(* Model of the Arweave latency tools:                                     *)
(*   arweave_latency.js  upload test: parse size, upload, poll the gateway,*)
(*                       download, compare, write the report               *)
(*   arweave_read.js     read test: metadata, HEAD probe, streamed         *)
(*                       download, size verification, write the report     *)
(* One behaviour is one run of one program.  prog selects the program:     *)
(* "parse" applies parseSize alone to a token, "latency" and "read" are    *)
(* whole runs of the two scripts, split at their await points.             *)
(***************************************************************************)
EXTENDS Integers, Sequences, FiniteSets, TLC

VARIABLES
    prog,            \* which program this run is
    pc,              \* position of the run in the script
    exitCode,        \* Running, or the process's exit code
    cause,           \* history: the statement that ended the run
    argv,            \* command line arguments after the script name
    str,             \* parseSize: its argument (prog = "parse")
    parsed,          \* parseSize: NotCalled, Thrown or [value |-> number]
    sizeBytes,       \* arweave_latency.js: const sizeBytes
    data,            \* arweave_latency.js: const data (the random buffer)
    available,       \* arweave_latency.js: let available
    statusText,      \* arweave_latency.js: let statusText
    waitedMs,        \* arweave_latency.js: let waitedMs
    probes,          \* history: HEAD probes issued by the poll loop
    failures,        \* history: HEAD probes that failed (status or throw)
    thrown,          \* history: some probe threw a transport error
    getIssued,       \* history: the download GET was issued
    dlBuf,           \* arweave_latency.js: const dlBuf
    report,          \* the results file written by the run, or NoFile
    errAttempted,    \* an error-report writeFile was called
    errFile,         \* the error-report file exists
    expectedSize,    \* arweave_read.js: let expectedSize
    metaResult,      \* history: outcome of the metadata fetch
    downloadedBytes, \* arweave_read.js: let downloadedBytes
    chunkSizes,      \* arweave_read.js: const chunkSizes
    chunks,          \* arweave_read.js: const chunks (each chunk by its size)
    delivered,       \* history: sizes of the chunks the response delivered
    progressLines,   \* history: progress lines written to stdout
    lastLine         \* history: the last read step wrote a progress line

vars == <<prog, pc, exitCode, cause, argv, str, parsed, sizeBytes, data,
          available, statusText, waitedMs, probes, failures, thrown,
          getIssued, dlBuf, report, errAttempted, errFile, expectedSize,
          metaResult, downloadedBytes, chunkSizes, chunks, delivered,
          progressLines, lastLine>>

---------------------------------------------------------------------------
(* Bounds of the model *)

\* longest size token given to parseSize
MaxLen == 4
\* largest buffer (bytes) of an upload run
MaxBuf == 2
\* most chunks a download response delivers
MaxChunks == 3

---------------------------------------------------------------------------
(* Values *)

\* exitCode while the process is alive
Running == -1
\* parseSize's outcomes: not called yet, threw, or returned a number
NotCalled == [kind |-> "not called"]
Thrown == [kind |-> "thrown"]
Returned(v) == [kind |-> "value", value |-> v]
\* no file was written
NoFile == [kind |-> "none"]
\* a string is the sequence of its characters; the empty string is <<>>
EmptyString == <<>>

\* characters a size token is made of in the model
Alphabet == {"0", "1", "5", "K", "k", "M", "G", "B", "b", "X"}

RECURSIVE SeqsUpTo(_, _)
SeqsUpTo(S, n) ==
    IF n = 0 THEN {<<>>}
    ELSE LET shorter == SeqsUpTo(S, n - 1)
         IN  shorter \cup {Append(s, c) : s \in {t \in shorter : Len(t) = n - 1}, c \in S}

Tokens == SeqsUpTo(Alphabet, MaxLen)

---------------------------------------------------------------------------
(* JavaScript numbers.  The byte counts of parseSize pass 2^31, so a number *)
(* is kept exactly as two limbs: hi * 2^20 + lo.                            *)

Limb == 1024 * 1024

Num(n) == [hi |-> n \div Limb, lo |-> n % Limb]

\* the number as a model integer (used only below 2^31)
ToInt(x) == x.hi * Limb + x.lo

\* x * 1024
Times1024(x) ==
    LET l == x.lo * 1024
    IN  [hi |-> x.hi * 1024 + (l \div Limb), lo |-> l % Limb]

---------------------------------------------------------------------------
(* parseSize, arweave_latency.js:13-22 *)

IsDigit(c) == c \in {"0", "1", "2", "3", "4", "5", "6", "7", "8", "9"}

DigitVal(c) ==
    CASE c = "0" -> 0 [] c = "1" -> 1 [] c = "2" -> 2 [] c = "3" -> 3
      [] c = "4" -> 4 [] c = "5" -> 5 [] c = "6" -> 6 [] c = "7" -> 7
      [] c = "8" -> 8 [] c = "9" -> 9

\* String.prototype.toUpperCase on one character
UpperChar(c) ==
    CASE c = "k" -> "K" [] c = "m" -> "M" [] c = "g" -> "G" [] c = "b" -> "B"
      [] c = "x" -> "X" [] OTHER -> c

toUpperCase(s) == [i \in 1..Len(s) |-> UpperChar(s[i])]

\* length of the longest prefix of s made of digits: what (\d+) takes
RECURSIVE DigitPrefix(_)
DigitPrefix(s) ==
    IF s # <<>> /\ IsDigit(Head(s)) THEN 1 + DigitPrefix(Tail(s)) ELSE 0

\* [KMG]?B?$ under the i flag
UnitMatches(u) ==
    LET U == toUpperCase(u)
    IN  \/ U = <<>>
        \/ Len(U) = 1 /\ U[1] \in {"K", "M", "G", "B"}
        \/ Len(U) = 2 /\ U[1] \in {"K", "M", "G"} /\ U[2] = "B"

\* str.match(/^(\d+)([KMG]?B?)$/i): null, or the two groups
Match(s) ==
    LET d == DigitPrefix(s)
    IN  IF d >= 1 /\ UnitMatches(SubSeq(s, d + 1, Len(s)))
        THEN [matched |-> TRUE, g1 |-> SubSeq(s, 1, d), g2 |-> SubSeq(s, d + 1, Len(s))]
        ELSE [matched |-> FALSE, g1 |-> <<>>, g2 |-> <<>>]

\* parseInt(digits, 10) on a string of digits
RECURSIVE parseInt(_)
parseInt(ds) ==
    IF ds = <<>> THEN 0
    ELSE 10 * parseInt(SubSeq(ds, 1, Len(ds) - 1)) + DigitVal(ds[Len(ds)])

parseSize(s) ==
    LET m == Match(s)
    IN  IF ~m.matched THEN Thrown
        ELSE LET n    == Num(parseInt(m.g1))
                 unit == toUpperCase(m.g2)
             IN  IF unit = <<"K", "B">> THEN Returned(Times1024(n))
                 ELSE IF unit = <<"M", "B">> THEN Returned(Times1024(Times1024(n)))
                 ELSE IF unit = <<"G", "B">>
                      THEN Returned(Times1024(Times1024(Times1024(n))))
                 ELSE Returned(n)

---------------------------------------------------------------------------
(* Inputs of the runs *)

JwkPath == <<"j", "w", "k">>
TxId == <<"t", "x">>

DigitChar(n) == CASE n = 0 -> "0" [] n = 1 -> "1" [] n = 2 -> "2" [] n = 3 -> "3"
                  [] n = 4 -> "4" [] n = 5 -> "5" [] n = 6 -> "6" [] n = 7 -> "7"
                  [] n = 8 -> "8" [] n = 9 -> "9"

\* <size> arguments of the upload runs: sizes up to MaxBuf, and bad tokens
SizeArgs ==
    {<<DigitChar(n)>> : n \in 0..MaxBuf}
      \cup {<<DigitChar(MaxBuf), "b">>, <<"1", "K">>, <<"5", "X", "B">>,
            <<"M", "B", "5">>, EmptyString}

LatencyArgvs == {<<>>, <<JwkPath>>} \cup {<<JwkPath, t>> : t \in SizeArgs}

ReadArgvs == {<<>>, <<TxId>>}

\* process.argv destructuring: a missing argument is undefined, which like
\* the empty string is falsy
Falsy(args, i) == Len(args) < i \/ args[i] = EmptyString

Byte == {0, 1}

RECURSIVE BuffersOfLen(_)
BuffersOfLen(n) ==
    IF n = 0 THEN {<<>>}
    ELSE {Append(b, x) : b \in BuffersOfLen(n - 1), x \in Byte}

\* bodies a download response can carry
Buffers == UNION {BuffersOfLen(n) : n \in 0..MaxBuf}

---------------------------------------------------------------------------
(* Initial state *)

Init ==
    /\ prog \in {"parse", "latency", "read"}
    /\ pc = "start"
    /\ exitCode = Running
    /\ cause = "none"
    /\ argv \in (CASE prog = "latency" -> LatencyArgvs
                   [] prog = "read" -> ReadArgvs
                   [] OTHER -> {<<>>})
    /\ str \in (IF prog = "parse" THEN Tokens ELSE {EmptyString})
    /\ parsed = NotCalled
    /\ sizeBytes = 0
    /\ data = <<>>
    /\ available = FALSE
    /\ statusText = ""
    /\ waitedMs = 0
    /\ probes = 0
    /\ failures = 0
    /\ thrown = FALSE
    /\ getIssued = FALSE
    /\ dlBuf = <<>>
    /\ report = NoFile
    /\ errAttempted = FALSE
    /\ errFile = FALSE
    /\ expectedSize = 0
    /\ metaResult = "none"
    /\ downloadedBytes = 0
    /\ chunkSizes = <<>>
    /\ chunks = <<>>
    /\ delivered = <<>>
    /\ progressLines = 0
    /\ lastLine = FALSE

\* process.exit(code), or the script running to its end
Exit(code, why) ==
    /\ pc' = "exited"
    /\ exitCode' = code
    /\ cause' = why

\* an exception leaves the try block for its catch
Throw(why) ==
    /\ pc' = "catch"
    /\ cause' = why
    /\ UNCHANGED exitCode

Goto(l) ==
    /\ pc' = l
    /\ UNCHANGED <<exitCode, cause>>

pollVars == <<available, statusText, waitedMs, probes, failures, thrown>>
fileVars == <<report, errAttempted, errFile>>
readVars == <<expectedSize, metaResult, downloadedBytes, chunkSizes, chunks,
              delivered, progressLines, lastLine>>

---------------------------------------------------------------------------
(* parseSize applied to a token *)

ParseSizeCall ==
    /\ prog = "parse" /\ pc = "start"
    /\ parsed' = parseSize(str)
    /\ pc' = "exited"
    /\ UNCHANGED <<prog, exitCode, cause, argv, str, sizeBytes, data, getIssued,
                   dlBuf>>
    /\ UNCHANGED <<pollVars, fileVars, readVars>>

---------------------------------------------------------------------------
(* arweave_latency.js: the upload test *)

maxWaitMs == 10 * 60 * 1000
pollIntervalMs == 2000

\* exit codes of the script's process.exit calls
ExitUsage == 1
ExitDownloadStatus == 1
\* the early exit taken as a failure, like the download-status exit
ExitNotAvailableAsFailure == ExitDownloadStatus
ExitNotAvailable == 0
ExitCatch == 1
\* the async function returns and the event loop drains
ExitCompleted == 0

\* while (waitedMs < maxWaitMs): the loop gives up one probe early
PollGuardStrict(w) == w < maxWaitMs

\* while (waitedMs <= maxWaitMs)
PollGuard(w) == w <= maxWaitMs

\* waitedMs += 2 * pollIntervalMs: the wait is counted twice
Waited2(w) == w + 2 * pollIntervalMs

\* waitedMs += pollIntervalMs
Waited(w) == w + pollIntervalMs

\* process.exit(1) moved into the try, after the write of the error report
CatchExitInTry(written) == IF written THEN 1 ELSE 0

\* process.exit(1) after the inner try/catch, whether the write succeeded or not
CatchExit(written) == ExitCatch

\* dlBuf.length === sizeBytes alone
SameLength(buf, n, d) == Len(buf) = n

\* dlBuf.length === sizeBytes && dlBuf.equals(data)
Same(buf, n, d) == Len(buf) = n /\ buf = d

\* the results object, by the fields the run decides
Results(n, avail, status, same) ==
    [kind |-> "test", bytes |-> n, available |-> avail, lastStatus |-> status,
     integrityCheck |-> IF same THEN "PASS" ELSE "FAIL"]

\* const [,, jwkPath, sizeArg, gatewayArg] = process.argv ... parseSize(sizeArg)
LatencyArgs ==
    /\ prog = "latency" /\ pc = "start"
    /\ IF Falsy(argv, 1) \/ Falsy(argv, 2)
       THEN /\ Exit(ExitUsage, "usage")
            /\ UNCHANGED <<parsed, sizeBytes>>
       ELSE /\ parsed' = parseSize(argv[2])
            /\ IF parsed' = Thrown
               THEN Throw("size") /\ UNCHANGED sizeBytes
               ELSE Goto("key") /\ sizeBytes' = ToInt(parsed'.value)
    /\ UNCHANGED <<prog, argv, str, data, getIssued, dlBuf>>
    /\ UNCHANGED <<pollVars, fileVars, readVars>>

\* JSON.parse(await fs.readFile(jwkPath)); crypto.randomBytes(sizeBytes)
LoadKey ==
    /\ prog = "latency" /\ pc = "key"
    /\ \/ Throw("key") /\ UNCHANGED data
       \/ Goto("upload") /\ data' \in BuffersOfLen(sizeBytes)
    /\ UNCHANGED <<prog, argv, str, parsed, sizeBytes, getIssued, dlBuf>>
    /\ UNCHANGED <<pollVars, fileVars, readVars>>

\* createTransaction, sign, getUploader, uploadChunk until complete; then
\* the poll loop's variables are initialised
Upload ==
    /\ prog = "latency" /\ pc = "upload"
    /\ \/ Throw("upload") /\ UNCHANGED pollVars
       \/ /\ Goto("poll")
          /\ available' = FALSE
          /\ statusText' = ""
          /\ waitedMs' = 0
          /\ UNCHANGED <<probes, failures, thrown>>
    /\ UNCHANGED <<prog, argv, str, parsed, sizeBytes, data, getIssued, dlBuf>>
    /\ UNCHANGED <<fileVars, readVars>>

\* one pass of the loop body up to the sleep: the HEAD probe
PollProbe ==
    /\ prog = "latency" /\ pc = "poll"
    /\ PollGuard(waitedMs)
    /\ probes' = probes + 1
    /\ \/ \* head.ok: available = true; break
          /\ available' = TRUE
          /\ statusText' = "200 OK"
          /\ Goto("polled")
          /\ UNCHANGED <<failures, thrown>>
       \/ \* a non-success status
          /\ statusText' = "404 Not Found"
          /\ failures' = failures + 1
          /\ Goto("sleep")
          /\ UNCHANGED <<available, thrown>>
       \/ \* fetch throws: caught, statusText = e.message
          /\ statusText' = "fetch failed"
          /\ failures' = failures + 1
          /\ thrown' = TRUE
          /\ Goto("sleep")
          /\ UNCHANGED available
    /\ UNCHANGED waitedMs
    /\ UNCHANGED <<prog, argv, str, parsed, sizeBytes, data, getIssued, dlBuf>>
    /\ UNCHANGED <<fileVars, readVars>>

\* await sleep(pollIntervalMs); waitedMs += pollIntervalMs
PollSleep ==
    /\ prog = "latency" /\ pc = "sleep"
    /\ waitedMs' = Waited(waitedMs)
    /\ Goto("poll")
    /\ UNCHANGED <<available, statusText, probes, failures, thrown>>
    /\ UNCHANGED <<prog, argv, str, parsed, sizeBytes, data, getIssued, dlBuf>>
    /\ UNCHANGED <<fileVars, readVars>>

\* the loop condition is false: the loop ends without a success
PollTimeout ==
    /\ prog = "latency" /\ pc = "poll"
    /\ ~PollGuard(waitedMs)
    /\ Goto("polled")
    /\ UNCHANGED <<prog, argv, str, parsed, sizeBytes, data, getIssued, dlBuf>>
    /\ UNCHANGED <<pollVars, fileVars, readVars>>

\* the check of available left out: the run always goes on to the download
NeverStops(avail) == FALSE

\* if (!available)
StopsBeforeDownload(avail) == ~avail

\* if (!available) process.exit(0); otherwise on to the download
AfterPoll ==
    /\ prog = "latency" /\ pc = "polled"
    /\ IF StopsBeforeDownload(available)
       THEN Exit(ExitNotAvailable, "not available")
       ELSE Goto("download")
    /\ UNCHANGED <<prog, argv, str, parsed, sizeBytes, data, getIssued, dlBuf>>
    /\ UNCHANGED <<pollVars, fileVars, readVars>>

\* fetch(url); if (!resp.ok) process.exit(1); Buffer.from(await resp.arrayBuffer())
Download ==
    /\ prog = "latency" /\ pc = "download"
    /\ getIssued' = TRUE
    /\ \/ Throw("download") /\ UNCHANGED dlBuf
       \/ Exit(ExitDownloadStatus, "download status") /\ UNCHANGED dlBuf
       \/ Goto("write") /\ dlBuf' \in Buffers
    /\ UNCHANGED <<prog, argv, str, parsed, sizeBytes, data>>
    /\ UNCHANGED <<pollVars, fileVars, readVars>>

\* the comparison, the summary and fs.writeFile(outputFilename, results)
WriteResults ==
    /\ prog = "latency" /\ pc = "write"
    /\ \/ /\ report' = Results(sizeBytes, available, statusText,
                               Same(dlBuf, sizeBytes, data))
          /\ Exit(ExitCompleted, "completed")
       \/ Throw("write") /\ UNCHANGED report
    /\ UNCHANGED <<errAttempted, errFile>>
    /\ UNCHANGED <<prog, argv, str, parsed, sizeBytes, data, getIssued, dlBuf>>
    /\ UNCHANGED <<pollVars, readVars>>

\* catch (err): try to write the error report, then process.exit(1)
LatencyCatch ==
    /\ prog = "latency" /\ pc = "catch"
    /\ errAttempted' = TRUE
    /\ errFile' \in BOOLEAN
    /\ pc' = "exited"
    /\ exitCode' = CatchExit(errFile')
    /\ UNCHANGED <<cause, report>>
    /\ UNCHANGED <<prog, argv, str, parsed, sizeBytes, data, getIssued, dlBuf>>
    /\ UNCHANGED <<pollVars, readVars>>

---------------------------------------------------------------------------
(* arweave_read.js: the read test *)

MiB == 1024 * 1024
\* 10 * 1024 * 1024 of the progress test
ProgressStep == 10 * 1024 * 1024

\* metadata.data_size values the gateway answers with ("" stands for a
\* metadata document without the field)
DataSizes == {EmptyString, <<"0">>, <<"2", "0", "4", "8">>,
              <<"1", "0", "4", "8", "5", "7", "6", "0">>}

\* sizes of the chunks a reader delivers
ChunkSizeSet == {0, 2048, 4 * MiB, 6 * MiB, 25 * MiB}

\* what reader.read() resolves to
Chunk(n) == [present |-> TRUE, length |-> n]
NoValue == [present |-> FALSE, length |-> 0]

\* if (value && value.length)
TruthyNonEmpty(value) == value.present /\ value.length > 0

\* if (value): a Uint8Array is an object, truthy whatever its length
Truthy(value) == value.present

\* ... <= value.length
ProgressDueOrEqual(expected, downloaded, length) ==
    expected > 0 /\ downloaded % ProgressStep <= length

\* expectedSize > 0 && downloadedBytes % (10 * 1024 * 1024) < value.length
ProgressDue(expected, downloaded, length) ==
    expected > 0 /\ downloaded % ProgressStep < length

RECURSIVE Sum(_)
Sum(sizes) == IF sizes = <<>> THEN 0 ELSE Head(sizes) + Sum(Tail(sizes))

\* Buffer.concat(chunks.map(chunk => Buffer.from(chunk))).length
ConcatLength(cs) == Sum(cs)

\* expectedSize === actualSize, whatever expectedSize is
SizeMatchUnguarded(expected, actual) ==
    IF expected = actual THEN "true" ELSE "false"

\* expectedSize > 0 ? expectedSize === actualSize : null
SizeMatch(expected, actual) ==
    IF expected > 0
    THEN (IF expected = actual THEN "true" ELSE "false")
    ELSE "null"

\* the results object of the read test, by the fields the run decides
ReadResults(expected, cs) ==
    [kind |-> "read", expectedSize |-> expected,
     actualSize |-> ConcatLength(cs), chunks |-> Len(cs),
     sizeMatch |-> SizeMatch(expected, ConcatLength(cs))]

latencyVars == <<str, parsed, sizeBytes, data, getIssued, dlBuf>>

\* a failed metadata fetch made fatal
MetadataFailureFatal == Exit(1, "metadata")

\* after the else branch or the catch of the metadata fetch: on to the HEAD
MetadataFailure == Goto("head")

\* const [,, txid, gatewayArg] = process.argv
ReadArgs ==
    /\ prog = "read" /\ pc = "start"
    /\ IF Falsy(argv, 1) THEN Exit(ExitUsage, "usage") ELSE Goto("meta")
    /\ UNCHANGED <<prog, argv>>
    /\ UNCHANGED <<latencyVars, pollVars, fileVars, readVars>>

\* the metadata fetch, inside its own try/catch
ReadMetadata ==
    /\ prog = "read" /\ pc = "meta"
    /\ \/ \* metaResp.ok and the JSON parses: parseInt(metadata.data_size || "0", 10)
          /\ \E ds \in DataSizes :
                expectedSize' = parseInt(IF ds = EmptyString THEN <<"0">> ELSE ds)
          /\ metaResult' = "ok"
          /\ Goto("head")
       \/ \* expectedSize is assigned, then decoding a tag throws: caught
          /\ \E ds \in DataSizes :
                expectedSize' = parseInt(IF ds = EmptyString THEN <<"0">> ELSE ds)
          /\ metaResult' = "thrown"
          /\ MetadataFailure
       \/ \* a non-success status: logged
          /\ metaResult' = "status"
          /\ UNCHANGED expectedSize
          /\ MetadataFailure
       \/ \* fetch or json() throws: caught and logged
          /\ metaResult' = "thrown"
          /\ UNCHANGED expectedSize
          /\ MetadataFailure
    /\ UNCHANGED <<downloadedBytes, chunkSizes, chunks, delivered,
                   progressLines, lastLine>>
    /\ UNCHANGED <<prog, argv>>
    /\ UNCHANGED <<latencyVars, pollVars, fileVars>>

\* the HEAD probe on the raw endpoint
ReadHead ==
    /\ prog = "read" /\ pc = "head"
    /\ \/ Goto("fetch")
       \/ Exit(1, "head status")
       \/ Exit(1, "head thrown")
    /\ UNCHANGED <<prog, argv>>
    /\ UNCHANGED <<latencyVars, pollVars, fileVars, readVars>>

\* fetch(rawUrl); if (!resp.ok) process.exit(1); resp.body.getReader()
ReadFetch ==
    /\ prog = "read" /\ pc = "fetch"
    /\ \/ Goto("read")
       \/ Exit(1, "download status")
       \/ Throw("download")
    /\ UNCHANGED <<prog, argv>>
    /\ UNCHANGED <<latencyVars, pollVars, fileVars, readVars>>

\* one pass of while (!done): reader.read() and the accumulation
ReadChunk ==
    /\ prog = "read" /\ pc = "read"
    /\ \/ \E value \in {Chunk(n) : n \in ChunkSizeSet} :
            /\ Len(delivered) < MaxChunks
            /\ delivered' = Append(delivered, value.length)
            /\ IF Truthy(value)
               THEN /\ chunks' = Append(chunks, value.length)
                    /\ chunkSizes' = Append(chunkSizes, value.length)
                    /\ downloadedBytes' = downloadedBytes + value.length
                    /\ lastLine' = ProgressDue(expectedSize, downloadedBytes', value.length)
                    /\ progressLines' = progressLines + (IF lastLine' THEN 1 ELSE 0)
               ELSE /\ lastLine' = FALSE
                    /\ UNCHANGED <<chunks, chunkSizes, downloadedBytes, progressLines>>
            /\ Goto("read")
       \/ \* { value: undefined, done: true }
          /\ ~Truthy(NoValue)
          /\ lastLine' = FALSE
          /\ Goto("finish")
          /\ UNCHANGED <<chunks, chunkSizes, downloadedBytes, progressLines, delivered>>
       \/ \* the stream breaks: read() rejects
          /\ Throw("download")
          /\ UNCHANGED <<chunks, chunkSizes, downloadedBytes, progressLines,
                         delivered, lastLine>>
    /\ UNCHANGED <<expectedSize, metaResult>>
    /\ UNCHANGED <<prog, argv>>
    /\ UNCHANGED <<latencyVars, pollVars, fileVars>>

\* concat, hash, verification, summary and fs.writeFile(outputFilename, results)
ReadFinish ==
    /\ prog = "read" /\ pc = "finish"
    /\ \/ /\ report' = ReadResults(expectedSize, chunks)
          /\ Exit(ExitCompleted, "completed")
       \/ Throw("write") /\ UNCHANGED report
    /\ UNCHANGED <<errAttempted, errFile>>
    /\ UNCHANGED <<prog, argv>>
    /\ UNCHANGED <<latencyVars, pollVars, readVars>>

\* the download block's catch: write the error report, process.exit(1); a
\* failing write throws into the outer catch, which also calls process.exit(1)
ReadCatch ==
    /\ prog = "read" /\ pc = "catch"
    /\ errAttempted' = TRUE
    /\ errFile' \in BOOLEAN
    /\ pc' = "exited"
    /\ exitCode' = 1
    /\ UNCHANGED <<cause, report>>
    /\ UNCHANGED <<prog, argv>>
    /\ UNCHANGED <<latencyVars, pollVars, readVars>>

---------------------------------------------------------------------------

Next ==
    \/ ParseSizeCall
    \/ LatencyArgs \/ LoadKey \/ Upload
    \/ PollProbe \/ PollSleep \/ PollTimeout \/ AfterPoll
    \/ Download \/ WriteResults \/ LatencyCatch
    \/ ReadArgs \/ ReadMetadata \/ ReadHead \/ ReadFetch
    \/ ReadChunk \/ ReadFinish \/ ReadCatch

Spec == Init /\ [][Next]_vars

---------------------------------------------------------------------------
(* Availability poller of the upload test *)

\* the poll loop has ended (by break or by its condition)
PollEnded == prog = "latency" /\ pc = "polled"

\* C1: when the HEAD probe fails N times (by status or by a thrown, swallowed
\* transport error) and then succeeds, with N * pollIntervalMs <= maxWaitMs,
\* the poller reports available = true after exactly N + 1 probes and an
\* accumulated wait of at least N * pollIntervalMs; the loop never gives up
\* while N * pollIntervalMs <= maxWaitMs, and a failed probe never ends the run
C1_SuccessAfterNFailures ==
    prog = "latency" =>
      /\ available =>
           /\ probes = failures + 1
           /\ waitedMs >= failures * pollIntervalMs
           /\ failures * pollIntervalMs <= maxWaitMs
      /\ (PollEnded /\ ~available) => failures * pollIntervalMs > maxWaitMs
      /\ pc \in {"poll", "sleep", "polled"} => exitCode = Running

\* C1 witness: 300 failed probes, one of them thrown, then a success
C1_Witness ==
    /\ PollEnded /\ available /\ thrown
    /\ failures * pollIntervalMs = maxWaitMs
    /\ probes = failures + 1

\* C2: when every probe fails the loop ends with available = false only once
\* the accumulated wait is >= maxWaitMs, and the wait then exceeds maxWaitMs
\* by at most one poll interval
C2_TimeoutWithinOneInterval ==
    (prog = "latency" /\ ~available /\ (PollEnded \/ cause = "not available")) =>
      /\ probes = failures
      /\ waitedMs >= maxWaitMs
      /\ waitedMs - maxWaitMs <= pollIntervalMs

\* C2 witness: the loop has ended after nothing but failed probes
C2_Witness ==
    /\ PollEnded /\ ~available
    /\ probes = failures /\ failures > 0

---------------------------------------------------------------------------
(* Exit status of the upload test *)

\* the causes that reach the top-level catch of arweave_latency.js
LatencyExceptions == {"size", "key", "upload", "download", "write"}

\* C3: the upload test exits 0 when it completes or stops because the gateway
\* never became available, and exits 1 exactly on a usage error (missing
\* argument, bad size token), a non-success download status or an exception
\* that reaches the top-level catch; there is no other exit code
C3_LatencyExitCodes ==
    (prog = "latency" /\ pc = "exited") =>
      /\ exitCode \in {0, 1}
      /\ exitCode = 0 <=> cause \in {"completed", "not available"}
      /\ exitCode = 1 <=>
           cause \in {"usage", "download status"} \cup LatencyExceptions
      /\ cause = "size" => parsed = Thrown
      /\ cause = "usage" => Falsy(argv, 1) \/ Falsy(argv, 2)

\* C3 witness: the early exit of a run whose gateway never served the data
C3_Witness ==
    /\ prog = "latency" /\ pc = "exited"
    /\ cause = "not available" /\ ~available /\ exitCode = 0

---------------------------------------------------------------------------
(* Error reports of both tests *)

Exited == pc = "exited"

\* a run that ended with exit code 1 because a download, an upload or a probe
\* failed: by a thrown error or by a non-success status
FailedTransfer ==
    /\ prog \in {"latency", "read"} /\ Exited /\ exitCode = 1
    /\ cause \in {"upload", "download", "download status", "head status",
                  "head thrown"}

\* C4 as stated: every run that exits 1 because of a failed download, upload
\* or probe attempted the write of an error report before the exit
C4_ErrorReportOnEveryFailure == FailedTransfer => errAttempted

\* the exits taken through a catch block that writes the error report: the
\* top-level catch of the upload test, the download block's catch of the
\* read test
CaughtFailure ==
    \/ prog = "latency" /\ cause \in LatencyExceptions
    \/ prog = "read" /\ cause \in {"download", "write"}

\* C4 amended: the error report is attempted exactly on the exits taken
\* through a catch block (a thrown error of the upload test, a thrown error of
\* the read test's download block); the exits on a non-success download
\* status, on a failed HEAD probe of the read test and on a usage error write
\* no error report; a failed write of the error report leaves the exit code 1
C4_ErrorReportOnCaughtFailure ==
    (prog \in {"latency", "read"} /\ Exited) =>
      /\ errAttempted <=> CaughtFailure
      /\ errAttempted => exitCode = 1
      /\ errFile => errAttempted
      /\ cause \in {"download status", "head status", "head thrown", "usage"}
           => exitCode = 1 /\ ~errAttempted

\* C4 witness: a thrown download error whose error report could not be written
C4_Witness ==
    /\ prog = "latency" /\ Exited /\ cause = "download"
    /\ errAttempted /\ ~errFile /\ exitCode = 1

---------------------------------------------------------------------------
(* Exit status of the read test *)

MetadataFailed == metaResult \in {"status", "thrown"}
HeadFailed == cause \in {"head status", "head thrown"}
\* a non-success status, a thrown error, or any exception of the download
\* block (its report write included)
DownloadFailed == cause \in {"download status", "download", "write"}

\* C5 as stated, for a run given its identifier: exit code 1 if the metadata
\* fetch, the HEAD probe or the download failed, 0 otherwise
C5_MetadataFailureExits1 ==
    (prog = "read" /\ Exited /\ ~Falsy(argv, 1)) =>
      (exitCode = 1 <=> MetadataFailed \/ HeadFailed \/ DownloadFailed)

\* C5 amended: the read test exits 1 if the HEAD probe or the download fails
\* (or the identifier is missing) and 0 otherwise; a failed metadata fetch is
\* swallowed and never decides the exit code
C5_ReadExitCodes ==
    (prog = "read" /\ Exited) =>
      /\ exitCode \in {0, 1}
      /\ exitCode = 1 <=> Falsy(argv, 1) \/ HeadFailed \/ DownloadFailed
      /\ exitCode = 0 <=> cause = "completed"

\* C5 witness: a run whose metadata fetch threw and that still exits 0
C5_Witness ==
    /\ prog = "read" /\ Exited /\ metaResult = "thrown"
    /\ exitCode = 0 /\ report # NoFile

---------------------------------------------------------------------------
(* parseSize *)

\* the units of a size token and their multipliers, as numbers
Units == {<<>>, <<"B">>, <<"K", "B">>, <<"M", "B">>, <<"G", "B">>}

Scaled(n, unit) ==
    CASE unit = <<"K", "B">> -> Num(n * 1024)
      [] unit = <<"M", "B">> -> [hi |-> n, lo |-> 0]
      [] unit = <<"G", "B">> -> [hi |-> n * 1024, lo |-> 0]
      [] OTHER -> Num(n)

\* <integer><unit>: one digit or more, then a unit of Units in any case
WellFormed(s) ==
    \E d \in 1..Len(s) :
      /\ \A i \in 1..d : IsDigit(s[i])
      /\ toUpperCase(SubSeq(s, d + 1, Len(s))) \in Units

IntegerOf(s) == parseInt(SubSeq(s, 1, DigitPrefix(s)))
UnitOf(s) == toUpperCase(SubSeq(s, DigitPrefix(s) + 1, Len(s)))

\* C6 as stated: parseSize returns integer * multiplier exactly for the tokens
\* <integer><unit> with unit in {"", B, KB, MB, GB} (any case), and throws the
\* format error for every other token
C6_ParseSizeAcceptsExactlyUnits ==
    (prog = "parse" /\ Exited) =>
      IF WellFormed(str)
      THEN parsed = Returned(Scaled(IntegerOf(str), UnitOf(str)))
      ELSE parsed = Thrown

---------------------------------------------------------------------------
(* Integrity check of the upload test *)

\* same length and same content
Identical(a, b) == Len(a) = Len(b) /\ \A i \in 1..Len(a) : a[i] = b[i]

\* C7: the report's integrityCheck is "PASS" exactly when the downloaded
\* buffer has the length and the content of the generated one, "FAIL"
\* otherwise; a FAIL does not end the run: the report carries it and the run
\* exits 0
C7_IntegrityPassIffIdentical ==
    prog = "latency" =>
      /\ (Exited /\ cause = "completed") =>
           /\ report # NoFile
           /\ exitCode = 0
      /\ report # NoFile =>
           /\ report.integrityCheck \in {"PASS", "FAIL"}
           /\ report.integrityCheck = "PASS" <=> Identical(dlBuf, data)
           /\ Len(data) = report.bytes
           /\ exitCode = 0 /\ ~errAttempted

\* C7 witness: a download of the right length with one differing byte, reported
\* as FAIL by a run that exits 0
C7_Witness ==
    /\ prog = "latency" /\ Exited /\ exitCode = 0
    /\ report # NoFile /\ report.integrityCheck = "FAIL"
    /\ Len(dlBuf) = Len(data) /\ Len(data) = MaxBuf
    /\ Cardinality({i \in 1..Len(data) : dlBuf[i] # data[i]}) = 1

---------------------------------------------------------------------------
(* Streaming downloader of the read test *)

\* C8: after every read step the byte counter is the sum of the sizes of the
\* chunks received so far, every delivered chunk (an empty one too) is kept,
\* and the report carries the sum as the length and the number of delivered
\* chunks as the chunk count, whatever the expected size
C8_BytesAndChunksAddUp ==
    prog = "read" =>
      /\ downloadedBytes = Sum(delivered)
      /\ Len(chunks) = Len(delivered)
      /\ chunkSizes = delivered
      /\ report # NoFile =>
           /\ report.actualSize = Sum(delivered)
           /\ report.chunks = Len(delivered)

\* C8 witness: chunks of 4 MiB, 4 MiB, 4 MiB against an expected 10 MiB give a
\* length of 12 MiB and a count of 3
C8_Witness ==
    /\ prog = "read" /\ report # NoFile
    /\ delivered = <<4 * MiB, 4 * MiB, 4 * MiB>>
    /\ expectedSize = 10 * MiB
    /\ report.actualSize = 12 * MiB /\ report.chunks = 3

\* C9: with an expected size > 0 the report's sizeMatch is (expected size =
\* downloaded length); with an expected size of 0 it is null; a mismatch does
\* not end the run: the report is written and the run exits 0
C9_SizeMatch ==
    (prog = "read" /\ report # NoFile) =>
      /\ report.expectedSize = expectedSize
      /\ expectedSize > 0 =>
           report.sizeMatch = (IF expectedSize = Sum(delivered) THEN "true" ELSE "false")
      /\ expectedSize = 0 => report.sizeMatch = "null"
      /\ Exited /\ exitCode = 0 /\ ~errAttempted

\* C9 witness: a download shorter than the declared 2048 bytes, reported with
\* sizeMatch = false by a run that exits 0
C9_Witness ==
    /\ prog = "read" /\ Exited /\ exitCode = 0 /\ report # NoFile
    /\ expectedSize = 2048 /\ Sum(delivered) # 2048
    /\ report.sizeMatch = "false"

\* the byte count passed from below a multiple of ProgressStep to it or
\* beyond it while the last chunk was added
CrossedStep(before, after) == after \div ProgressStep > before \div ProgressStep

\* C10: a chunk gets a progress line exactly when the expected size is nonzero
\* and the byte count reached or passed a multiple of 10 MiB with that chunk;
\* so no line for an empty chunk or with expected size 0, at most one line a
\* chunk, and never more lines than floor(total bytes / 10 MiB)
C10_ProgressLines ==
    prog = "read" =>
      /\ (pc = "read" /\ delivered # <<>>) =>
           LET length == delivered[Len(delivered)]
           IN  /\ lastLine <=>
                    /\ expectedSize > 0
                    /\ CrossedStep(downloadedBytes - length, downloadedBytes)
               /\ length = 0 => ~lastLine
      /\ expectedSize = 0 => progressLines = 0
      /\ progressLines <= Len(delivered)
      /\ progressLines <= Sum(delivered) \div ProgressStep

\* C10 witness: 6 MiB then 4 MiB: the second chunk reaches 10 MiB exactly and
\* gets the one progress line
C10_Witness ==
    /\ prog = "read" /\ pc = "read"
    /\ delivered = <<6 * MiB, 4 * MiB>>
    /\ lastLine /\ progressLines = 1

---------------------------------------------------------------------------
(* Files written by the upload test *)

\* C11: the Test Report is written only after the poller reported success and
\* the download GET returned a success status: a written Test Report carries
\* available = true; the download GET is never issued after a timeout of the
\* poller; the timeout early exit writes no file at all, and a run writes at
\* most one of the Test Report and the error report
C11_ReportOnlyAfterAvailableDownload ==
    prog = "latency" =>
      /\ report # NoFile =>
           /\ report.kind = "test"
           /\ report.available = TRUE
           /\ available /\ getIssued
           /\ Exited /\ cause = "completed"
      /\ getIssued => available /\ probes = failures + 1
      /\ (~available /\ (PollEnded \/ Exited)) => ~getIssued
      /\ cause = "not available" =>
           /\ ~getIssued
           /\ report = NoFile /\ ~errAttempted /\ ~errFile
      /\ cause = "download status" => report = NoFile
      /\ ~(report # NoFile /\ errFile)
      /\ ~(report # NoFile /\ errAttempted)

\* C11 witness: a Test Report written after failed probes, a success and a
\* download
C11_Witness ==
    /\ prog = "latency" /\ Exited
    /\ report # NoFile /\ report.available = TRUE
    /\ failures > 0 /\ getIssued /\ ~errFile

====
